---- MODULE Spec2Model ----
(***************************************************************************)
(* Model of mitiq/cdr/clifford_training_data.py: the generation of         *)
(* near-Clifford training circuits.                                        *)
(*                                                                         *)
(* Angles are fixed-point integers: Quarter units make pi/2, so one unit   *)
(* is 1e-7 of the scaled coordinate ang/(pi/2).  Random draws (sample,     *)
(* choice, randint, np.random.choice) are inputs of the operators that     *)
(* model the drawing functions, and the actions quantify over them.        *)
(***************************************************************************)
EXTENDS Integers, Sequences, FiniteSets, TLC

\* ------------------------------------------------------------ bounds
\* Longest input circuit drawn.
MaxOps == 2
\* Largest num_training_circuits drawn.
MaxTraining == 2

\* ------------------------------------------------------------ angles
\* Fixed-point units in pi/2.
Quarter == 10000000
TwoPi == 4 * Quarter
\* CLIFFORD_ANGLES, indexed from 0 in the source and from 1 here.
CLIFFORD_ANGLES == <<0, Quarter, 2 * Quarter, 3 * Quarter>>
\* 10**-6, the half width of the tie test on ang_scaled/0.5, as 1/TieTolInv.
TieTolInv == 1000000
\* tol = 10**-5 rad is 63.66 units: a distance is below tol iff it is at most 63 units.
TolUnits == 63
\* Python's None in the parameter and exponent columns.
None == 0 - 1000000000

Abs(x) == IF x < 0 THEN 0 - x ELSE x

\* Python's float % with a positive modulus: the result is in [0, m).
PyMod(x, m) == ((x % m) + m) % m

\* Python's int(): truncation toward zero of num/den, den > 0.
PyInt(num, den) == IF num >= 0 THEN num \div den ELSE 0 - ((0 - num) \div den)

\* np.round of a/Quarter for a >= 0: to the nearest integer, halves to even.
NpRound(a) ==
  LET f == a \div Quarter
      r == a % Quarter
  IN  IF 2 * r < Quarter THEN f
      ELSE IF 2 * r > Quarter THEN f + 1
      ELSE IF f % 2 = 0 THEN f ELSE f + 1

\* The test of lines 409-411: ang_scaled/0.5 is farther than 1e-6 from 1, 3 and 5
\* (in units: 2a is farther than Quarter/TieTolInv from Quarter, 3 and 5 Quarter).
NotAtMidpoint(a) ==
  /\ Abs(2 * a - Quarter) > Quarter \div TieTolInv
  /\ Abs(2 * a - 3 * Quarter) > Quarter \div TieTolInv
  /\ Abs(2 * a - 5 * Quarter) > Quarter \div TieTolInv

\* The tie branch, lines 417-418: index_list = [ang_scaled - 0.5, ang_scaled + 0.5],
\* pick is the element choice() returns (1 or 2), int() truncates it.
TieIndex(a, pick) ==
  IF pick = 1 THEN PyInt(2 * a - Quarter, 2 * Quarter)
  ELSE PyInt(2 * a + Quarter, 2 * Quarter)

\* The index _closest_clifford uses for the reduced angle a.
ClosestIndex(a, pick) ==
  IF NotAtMidpoint(a) THEN NpRound(a) % 4 ELSE TieIndex(a, pick)

\* ClosestClifford with the bug of using the rounded coordinate without % 4.
ClosestCliffordNoWrap(ang, pick) ==
  LET a == PyMod(ang, TwoPi)
  IN  IF NotAtMidpoint(a) THEN NpRound(a) * Quarter ELSE TieIndex(a, pick) * Quarter

\* _closest_clifford(ang) when choice() returns element `pick` of index_list.
ClosestClifford(ang, pick) ==
  CLIFFORD_ANGLES[ClosestIndex(PyMod(ang, TwoPi), pick) + 1]

\* _is_clifford_angle(ang) when the inner choice() returns element `pick`.
IsCliffordAngle(ang, pick) ==
  LET a == PyMod(ang, TwoPi)
  IN  Abs(ClosestClifford(a, pick) - a) <= TolUnits

\* _random_clifford(ang) when randint(0, 3) returns random_index.
RandomClifford(ang, random_index) == CLIFFORD_ANGLES[random_index + 1]

\* _probabilistic_angle_to_clifford(ang, sigma) when np.random.choice draws
\* entry `drawn` (0..3) of CLIFFORD_ANGLES; every entry has positive weight.
ProbabilisticAngleToClifford(ang, sigma, drawn) == CLIFFORD_ANGLES[drawn + 1]

\* ------------------------------------------------------------ circuits
\* An operation of a circuit: its gate class, its exponent (for ZPowGate the
\* angle exponent*pi in units; 2 * Quarter is exponent 1) and its qubits.
Rz(q, theta) == [gate |-> "ZPowGate", exponent |-> theta, qubits |-> <<q>>]
Rx(q) == [gate |-> "XPowGate", exponent |-> Quarter, qubits |-> <<q>>]
X(q) == [gate |-> "XPowGate", exponent |-> 2 * Quarter, qubits |-> <<q>>]
CNOT(c, t) == [gate |-> "CXPowGate", exponent |-> 2 * Quarter, qubits |-> <<c, t>>]
Measure(q) == [gate |-> "MeasurementGate", exponent |-> None, qubits |-> <<q>>]
H(q) == [gate |-> "HPowGate", exponent |-> 2 * Quarter, qubits |-> <<q>>]

\* The name the isinstance chain of _circuit_to_array gives an operation;
\* "" when no branch matches.
GateName(op) ==
  IF op.gate = "CXPowGate" THEN "cx"
  ELSE IF op.gate = "ZPowGate" THEN "rz"
  ELSE IF op.gate = "XPowGate" /\ op.exponent # 2 * Quarter THEN "rx"
  ELSE IF op.gate = "XPowGate" THEN "x"
  ELSE IF op.gate = "MeasurementGate" THEN "measure"
  ELSE ""

Recognized(op) == GateName(op) # ""

\* The entry of parameters_list for a recognized operation.
GateParameter(op) ==
  IF GateName(op) = "rz" THEN op.exponent
  ELSE IF GateName(op) = "rx" THEN Quarter
  ELSE None

\* The entry of qubits_list: qubits[0], or [qubits[0], qubits[1]] for cx.
GateQubit(op) ==
  IF GateName(op) = "cx" THEN <<op.qubits[1], op.qubits[2]>> ELSE <<op.qubits[1]>>

\* The five lists _circuit_to_array builds (lines 265-317): order and
\* operation_list get an entry for every operation, the other three only in
\* the branches of the isinstance chain.
CircuitToArray(circ) ==
  LET known == SelectSeq(circ, Recognized)
  IN  [order     |-> [i \in 1..Len(circ) |-> i - 1],
       name      |-> [k \in 1..Len(known) |-> GateName(known[k])],
       param     |-> [k \in 1..Len(known) |-> GateParameter(known[k])],
       qubits    |-> [k \in 1..Len(known) |-> GateQubit(known[k])],
       operation |-> circ]

\* np.array of the five lists is a 5 x n table only when they have one length.
Rectangular(data) ==
  /\ Len(data.name) = Len(data.order)
  /\ Len(data.param) = Len(data.order)
  /\ Len(data.qubits) = Len(data.order)
  /\ Len(data.operation) = Len(data.order)

EmptyTable == [order |-> <<>>, name |-> <<>>, param |-> <<>>, qubits |-> <<>>,
               operation |-> <<>>]

Width(data) == Len(data.order)

\* The ascending sequence of the members of a set of integers.
RECURSIVE Ascending(_)
Ascending(S) ==
  IF S = {} THEN <<>>
  ELSE LET m == CHOOSE x \in S : \A y \in S : x <= y
       IN  <<m>> \o Ascending(S \ {m})

\* Columns with the bug of taking the chosen columns in table order
\* instead of the order of idx.
ColumnsAscending(data, idx) ==
  LET sorted == Ascending({idx[k] : k \in 1..Len(idx)})
  IN  [f \in DOMAIN data |-> [k \in 1..Len(sorted) |-> data[f][sorted[k]]]]

\* data[:, idx] for a list of column indices (1-based here): a new table.
Columns(data, idx) == [f \in DOMAIN data |-> [k \in 1..Len(idx) |-> data[f][idx[k]]]]

\* data[:, mask] for a boolean mask.
Masked(data, mask) == Columns(data, Ascending({k \in 1..Len(mask) : mask[k]}))

\* np.delete(data, idx, axis=1).
Deleted(data, idx) ==
  Columns(data, Ascending({k \in 1..Width(data) : \A j \in 1..Len(idx) : idx[j] # k}))

\* np.column_stack((a, b)).
ColumnStack(a, b) == [f \in DOMAIN a |-> a[f] \o b[f]]

\* ArgSort with the bug of leaving the columns as stacked.
ArgSortUnsorted(row) == [k \in 1..Len(row) |-> k]

\* np.argsort of a row: position k holds the index of the k-th smallest entry.
ArgSort(row) ==
  [k \in 1..Len(row) |->
     CHOOSE i \in 1..Len(row) :
       Cardinality({j \in 1..Len(row) :
                      row[j] < row[i] \/ (row[j] = row[i] /\ j < i)}) = k - 1]

\* The operation _array_to_circuit appends for column i; <<>> when no branch matches.
Instruction(data, i) ==
  LET nm == data.name[i]
  IN  IF nm = "rz" THEN <<Rz(data.qubits[i][1], data.param[i])>>
      ELSE IF nm = "rx" THEN
        <<[gate |-> "XPowGate", exponent |-> data.param[i], qubits |-> data.qubits[i]]>>
      ELSE IF nm = "cx" THEN <<CNOT(data.qubits[i][1], data.qubits[i][2])>>
      ELSE IF nm = "x" THEN <<X(data.qubits[i][1])>>
      ELSE IF nm = "measure" THEN <<data.operation[i]>>
      ELSE <<>>

RECURSIVE Instructions(_, _)
Instructions(data, n) ==
  IF n = 0 THEN <<>> ELSE Instructions(data, n - 1) \o Instruction(data, n)

\* _array_to_circuit(data, empty_circuit): appends to the circuit object
\* `id` of the heap and returns that same object.
ArrayToCircuit(data, heap, id) ==
  [heap EXCEPT ![id] = @ \o Instructions(data, Len(data.name))]

\* EmptyCircuitCopy with the bug of building on the template itself.
EmptyCircuitAlias(heap, id) == [heap |-> heap, id |-> id]

\* empty_circuit.copy() (line 151): a new circuit object holding the same
\* instructions; the result names the heap with it and the new object.
EmptyCircuitCopy(heap, id) == [heap |-> Append(heap, heap[id]), id |-> Len(heap) + 1]

\* ------------------------------------------------------------ selection and replacement
\* N = int(fraction_non_clifford * total_non_cliff); the fraction is in quarters.
RetainedCount(fraction, total) == PyInt(fraction * total, 4)

\* What sample(range(total), size) and np.random.choice(range(total), size,
\* replace=False) can return: the sequences of `size` distinct column indices.
Samples(total, size) ==
  {c \in [1..size -> 1..total] : \A i, j \in 1..size : i # j => c[i] # c[j]}

SelectMethods == {"random", "probabilistic"}
ReplaceMethods == {"closest", "random", "probabilistic"}

\* The outcomes of the random draw one replaced gate makes.
ReplaceDraws(method) == IF method = "closest" THEN 1..2 ELSE 0..3

\* The angle one selected gate gets (lines 197-207) when its draw is d.
ReplacedAngle(method, ang, sigma, d) ==
  IF method = "closest" THEN ClosestClifford(ang, d)
  ELSE IF method = "random" THEN RandomClifford(ang, d)
  ELSE ProbabilisticAngleToClifford(ang, sigma, d)

\* rz_non_cliff_selected after line 198/202/206: the angle row overwritten.
WithAngles(selected, angles) == [selected EXCEPT !.param = angles]

\* Lines 215-218: stack the three tables and reorder the columns by `order`.
Reassemble(cliff, selected, untouched) ==
  LET new_circ == ColumnStack(ColumnStack(cliff, selected), untouched)
  IN  Columns(new_circ, ArgSort(new_circ.order))

\* ------------------------------------------------------------ keyword arguments
\* **additional_options of generate_training_circuits: the keywords passed
\* directly (`direct`, a mapping) and, when has_ao, the mapping passed under
\* the keyword additional_options (`ao`).
OptionKeys == {"sigma_select", "sigma_replace", "foo"}
NoOptions == [direct |-> <<>>, has_ao |-> FALSE, ao |-> <<>>]
Mappings(vals) == UNION {[K -> vals] : K \in SUBSET OptionKeys}

\* `if additional_options:` of line 78: the keyword dict is not empty.
KwargsTruthy(kw) == kw.has_ao \/ DOMAIN kw.direct # {}

\* What _map_to_near_clifford reads at line 153: additional_options.get(
\* 'additional_options') of what line 87 passed; absent (None) or a mapping.
\* The result is [given |-> it is a mapping, map |-> the mapping].
OptionsReachingMap(kw) ==
  IF KwargsTruthy(kw) /\ kw.has_ao THEN [given |-> TRUE, map |-> kw.ao]
  ELSE [given |-> FALSE, map |-> <<>>]

\* defult_sigma_select and defult_sigma_replace, 0.5, in tenths.
DefaultSigma == 5

\* Lines 154-172: the sigmas bound, or the raise of line 166.
ResolveSigmas(opt) ==
  IF opt.given /\ DOMAIN opt.map # {} THEN
    IF "sigma_select" \in DOMAIN opt.map THEN
      [raised       |-> FALSE,
       sigma_select  |-> opt.map["sigma_select"],
       sigma_replace |-> IF "sigma_replace" \in DOMAIN opt.map
                         THEN opt.map["sigma_replace"] ELSE DefaultSigma]
    ELSE IF "sigma_replace" \in DOMAIN opt.map THEN
      [raised |-> FALSE, sigma_select |-> DefaultSigma,
       sigma_replace |-> opt.map["sigma_replace"]]
    ELSE [raised |-> TRUE, sigma_select |-> DefaultSigma, sigma_replace |-> None]
  ELSE [raised |-> FALSE, sigma_select |-> DefaultSigma, sigma_replace |-> DefaultSigma]

\* The defaults of method_select and method_replace in the signature of
\* generate_training_circuits.
DefaultMethodSelect == "random"
DefaultMethodReplace == "nearest"

\* ------------------------------------------------------------ state
VARIABLES
  circuit,                \* the circuit passed to generate_training_circuits
  num_training_circuits,
  fraction_non_clifford,  \* in quarters, 0..4
  method_select,          \* as bound in the call (the default when not passed)
  method_replace,
  passed,                 \* the method keywords the caller passed
  additional_options,     \* the keyword dict **additional_options
  pc,                     \* "called", "loop", "returned", "raised"; "oracle..."
  error,                  \* the exception raised, "" when none
  data,                   \* the five lists of the Encoder
  heap,                   \* the circuit objects built so far, by identity
  empty_circuit,          \* the identity of the empty template
  rz_non_cliff,
  all_cliff,
  total_non_cliff,
  n,                      \* iterations completed
  circuits_list,          \* identities of the circuits built
  angles_original_list,
  angles_replaced_list,
  columns_log,            \* columns_to_change of each iteration
  sigma_select,           \* the sigmas bound by the last _map_to_near_clifford
  sigma_replace,
  draws,                  \* random draws made so far by selection and replacement
  ang,                    \* the angle given to the Clifford angle functions
  closest,                \* _closest_clifford(ang)
  verdict                 \* a result of _is_clifford_angle

vars == <<circuit, num_training_circuits, fraction_non_clifford, method_select,
          method_replace, passed, additional_options, pc, error, data, heap,
          empty_circuit, rz_non_cliff, all_cliff, total_non_cliff, n,
          circuits_list, angles_original_list, angles_replaced_list,
          columns_log, sigma_select, sigma_replace, draws, ang, closest, verdict>>

args == <<circuit, num_training_circuits, fraction_non_clifford, method_select,
          method_replace, passed, additional_options>>
encoded == <<data, empty_circuit, rz_non_cliff, all_cliff, total_non_cliff>>
results == <<circuits_list, angles_original_list, angles_replaced_list, columns_log>>
oracle == <<ang, closest, verdict>>

\* ------------------------------------------------------------ inputs
\* pi/4, halfway between 0 and pi/2.
AngleTie == Quarter \div 2
\* Just below the midpoint 3pi/4, inside the tie window.
AngleBelowTie == 3 * (Quarter \div 2) - 3
\* pi, a Clifford angle.
AnglePi == 2 * Quarter

BasisOps == {Rz(0, AngleTie), Rz(1, AngleBelowTie), Rz(0, AnglePi),
             CNOT(0, 1), Rx(1), X(0), Measure(1)}
AllOps == BasisOps \cup {H(0)}
\* The operations of the circuits that are run for several training circuits.
RepeatOps == {Rz(0, AngleTie), CNOT(0, 1)}

SeqsUpTo(S, len) == UNION {[1..k -> S] : k \in 0..len}

Fractions == {0, 2, 4}
SigmaValues == {3}

\* The state before the Encoder has run.
Fresh ==
  /\ pc = "called" /\ error = ""
  /\ data = EmptyTable /\ heap = <<>> /\ empty_circuit = 0
  /\ rz_non_cliff = EmptyTable /\ all_cliff = EmptyTable /\ total_non_cliff = 0
  /\ n = 0
  /\ circuits_list = <<>> /\ angles_original_list = <<>>
  /\ angles_replaced_list = <<>> /\ columns_log = <<>>
  /\ sigma_select = None /\ sigma_replace = None
  /\ draws = [select |-> 0, replace |-> 0]
  /\ ang = 0 /\ closest = None /\ verdict = FALSE

\* The methods of a call: both passed, or both left to their defaults.
MethodsPassed(selects, replaces) ==
  \/ /\ passed = {"method_select", "method_replace"}
     /\ method_select \in selects
     /\ method_replace \in replaces
  \/ /\ passed = {}
     /\ method_select = DefaultMethodSelect
     /\ method_replace = DefaultMethodReplace

\* One training circuit of any circuit of up to MaxOps operations.
InitSingle ==
  /\ circuit \in SeqsUpTo(AllOps, MaxOps)
  /\ num_training_circuits = 1
  /\ fraction_non_clifford \in Fractions
  /\ MethodsPassed(SelectMethods \cup {"bogus"}, ReplaceMethods \cup {"bogus"})
  /\ additional_options = NoOptions
  /\ Fresh

\* Several training circuits of one circuit.
InitRepeat ==
  /\ circuit \in SeqsUpTo(RepeatOps, MaxOps)
  /\ num_training_circuits \in 2..MaxTraining
  /\ fraction_non_clifford \in Fractions
  /\ MethodsPassed({"random"}, {"closest"})
  /\ additional_options = NoOptions
  /\ Fresh

\* Every way of passing options, with a circuit of one non-Clifford rotation.
InitOptions ==
  /\ circuit = <<Rz(0, AngleTie)>>
  /\ num_training_circuits = 1
  /\ fraction_non_clifford = 0
  /\ passed = {"method_select", "method_replace"}
  /\ method_select = "probabilistic"
  /\ method_replace = "probabilistic"
  /\ \E d \in Mappings(SigmaValues), has \in BOOLEAN, m \in Mappings(SigmaValues) :
       /\ (~has => m = <<>>)
       /\ additional_options = [direct |-> d, has_ao |-> has, ao |-> m]
  /\ Fresh

\* The angles given to the Clifford angle functions: around every multiple of
\* pi/4 from -2pi to beyond 4pi, at the offsets where the tie test (5 units)
\* and the tolerance (63 units) change their answer.
Offsets == {0 - 64, 0 - 63, 0 - 6, 0 - 5, 0 - 3, 0, 3, 5, 6, 63, 64}
Thetas == {k * (Quarter \div 2) + d : k \in (0 - 8)..17, d \in Offsets}

InitOracle ==
  /\ ang \in Thetas
  /\ pc = "oracle" /\ error = ""
  /\ closest = None /\ verdict = FALSE
  /\ circuit = <<>> /\ num_training_circuits = 0 /\ fraction_non_clifford = 0
  /\ method_select = DefaultMethodSelect /\ method_replace = DefaultMethodReplace
  /\ passed = {} /\ additional_options = NoOptions
  /\ data = EmptyTable /\ heap = <<>> /\ empty_circuit = 0
  /\ rz_non_cliff = EmptyTable /\ all_cliff = EmptyTable /\ total_non_cliff = 0
  /\ n = 0
  /\ circuits_list = <<>> /\ angles_original_list = <<>>
  /\ angles_replaced_list = <<>> /\ columns_log = <<>>
  /\ sigma_select = None /\ sigma_replace = None
  /\ draws = [select |-> 0, replace |-> 0]

Init == InitSingle \/ InitRepeat \/ InitOptions \/ InitOracle

\* ------------------------------------------------------------ generate_training_circuits
\* Lines 59-74: encode the circuit and split the table.  np.array of lists of
\* different lengths either raises (ValueError) or gives a one-dimensional
\* array that line 60 cannot index (IndexError), by numpy version; the
\* vectorized _is_clifford_angle raises ValueError on an empty angle row.
Encode ==
  /\ pc = "called"
  /\ LET lists == CircuitToArray(circuit)
         rz == Masked(lists, [k \in 1..Len(lists.name) |-> lists.name[k] = "rz"])
         not_rz == Masked(lists, [k \in 1..Len(lists.name) |-> lists.name[k] # "rz"])
     IN  /\ data' = lists
         /\ IF ~Rectangular(lists) THEN
              /\ pc' = "raised"
              /\ error' \in {"ValueError", "IndexError"}
              /\ UNCHANGED <<heap, empty_circuit, rz_non_cliff, all_cliff, total_non_cliff>>
            ELSE IF Width(rz) = 0 THEN
              /\ pc' = "raised"
              /\ error' = "ValueError"
              /\ heap' = <<<<>>>>
              /\ empty_circuit' = 1
              /\ UNCHANGED <<rz_non_cliff, all_cliff, total_non_cliff>>
            ELSE
              \E p1, p2 \in [1..Width(rz) -> 1..2] :
                LET mask_non_cliff == [k \in 1..Width(rz) |-> ~IsCliffordAngle(rz.param[k], p1[k])]
                    mask_cliff == [k \in 1..Width(rz) |-> IsCliffordAngle(rz.param[k], p2[k])]
                IN  /\ rz_non_cliff' = Masked(rz, mask_non_cliff)
                    /\ all_cliff' = ColumnStack(not_rz, Masked(rz, mask_cliff))
                    /\ total_non_cliff' = Width(Masked(rz, mask_non_cliff))
                    /\ heap' = <<<<>>>>
                    /\ empty_circuit' = 1
                    /\ pc' = "loop"
                    /\ error' = ""
  /\ UNCHANGED <<args, n, results, sigma_select, sigma_replace, draws, oracle>>

N == RetainedCount(fraction_non_clifford, total_non_cliff)
Sigmas == ResolveSigmas(OptionsReachingMap(additional_options))
InLoop == pc = "loop" /\ n < num_training_circuits

\* What every raise inside _map_to_near_clifford leaves behind.
Raise(exc) ==
  /\ pc' = "raised"
  /\ error' = exc
  /\ heap' = EmptyCircuitCopy(heap, empty_circuit).heap
  /\ UNCHANGED <<args, encoded, n, results, oracle>>

\* Line 166: the options hold neither sigma_select nor sigma_replace.
MapRaisesOptions ==
  /\ InLoop
  /\ Sigmas.raised
  /\ Raise("InvalidOptions")
  /\ UNCHANGED <<sigma_select, sigma_replace, draws>>

\* Line 188: method_select is not one of the two strings.
MapRaisesSelect ==
  /\ InLoop
  /\ ~Sigmas.raised
  /\ method_select \notin SelectMethods
  /\ Raise("InvalidMethodSelect")
  /\ sigma_select' = Sigmas.sigma_select
  /\ sigma_replace' = Sigmas.sigma_replace
  /\ UNCHANGED draws

\* The vectorized functions raise ValueError on an empty array: at line 181
\* when there is no non-Clifford gate, at line 198, 202 or 206 when no gate
\* was selected.
MapRaisesEmpty ==
  /\ InLoop
  /\ ~Sigmas.raised
  /\ \/ method_select = "probabilistic" /\ total_non_cliff = 0
     \/ /\ method_select \in SelectMethods
        /\ total_non_cliff - N = 0
        /\ method_replace \in ReplaceMethods
  /\ Raise("ValueError")
  /\ sigma_select' = Sigmas.sigma_select
  /\ sigma_replace' = Sigmas.sigma_replace
  /\ UNCHANGED draws

\* Line 210: method_replace is not one of the three strings; the selection
\* of lines 174-185 has been drawn.
MapRaisesReplace ==
  /\ InLoop
  /\ ~Sigmas.raised
  /\ method_select \in SelectMethods
  /\ ~(method_select = "probabilistic" /\ total_non_cliff = 0)
  /\ method_replace \notin ReplaceMethods
  /\ \E columns_to_change \in Samples(total_non_cliff, total_non_cliff - N) :
       draws' = [draws EXCEPT !.select = @ + Len(columns_to_change)]
  /\ Raise("InvalidMethodReplace")
  /\ sigma_select' = Sigmas.sigma_select
  /\ sigma_replace' = Sigmas.sigma_replace

\* Lines 148-222 and 99-103: one training circuit is built and stored.
MapReturns ==
  /\ InLoop
  /\ ~Sigmas.raised
  /\ method_select \in SelectMethods
  /\ method_replace \in ReplaceMethods
  /\ total_non_cliff - N > 0
  /\ \E columns_to_change \in Samples(total_non_cliff, total_non_cliff - N) :
     \E d \in [1..Len(columns_to_change) -> ReplaceDraws(method_replace)] :
       LET copy == EmptyCircuitCopy(heap, empty_circuit)
           rz_non_cliff_selected == Columns(rz_non_cliff, columns_to_change)
           rz_non_cliff_copy == Deleted(rz_non_cliff, columns_to_change)
           angles_original == rz_non_cliff_selected.param
           angles_replaced ==
             [j \in 1..Len(columns_to_change) |->
                ReplacedAngle(method_replace, rz_non_cliff_selected.param[j],
                              Sigmas.sigma_replace, d[j])]
           projected_circuit_data ==
             Reassemble(all_cliff, WithAngles(rz_non_cliff_selected, angles_replaced),
                        rz_non_cliff_copy)
       IN  /\ heap' = ArrayToCircuit(projected_circuit_data, copy.heap, copy.id)
           /\ circuits_list' = Append(circuits_list, copy.id)
           /\ angles_original_list' = Append(angles_original_list, angles_original)
           /\ angles_replaced_list' = Append(angles_replaced_list, angles_replaced)
           /\ columns_log' = Append(columns_log, columns_to_change)
           /\ draws' = [select  |-> draws.select + Len(columns_to_change),
                        replace |-> draws.replace + Len(columns_to_change)]
  /\ n' = n + 1
  /\ sigma_select' = Sigmas.sigma_select
  /\ sigma_replace' = Sigmas.sigma_replace
  /\ UNCHANGED <<args, encoded, pc, error, oracle>>

\* Line 104.
Return ==
  /\ pc = "loop"
  /\ n = num_training_circuits
  /\ pc' = "returned"
  /\ UNCHANGED <<args, encoded, error, heap, n, results, sigma_select, sigma_replace,
                 draws, oracle>>

\* ------------------------------------------------------------ the angle functions
\* _closest_clifford(ang).
ClosestCliffordCall ==
  /\ pc = "oracle"
  /\ \E pick \in 1..2 : closest' = ClosestClifford(ang, pick)
  /\ pc' = "oracle_closest"
  /\ UNCHANGED <<args, encoded, error, heap, n, results, sigma_select, sigma_replace,
                 draws, ang, verdict>>

\* _is_clifford_angle(_closest_clifford(ang)).
IsCliffordOfClosest ==
  /\ pc = "oracle_closest"
  /\ \E pick \in 1..2 : verdict' = IsCliffordAngle(closest, pick)
  /\ pc' = "oracle_checked"
  /\ UNCHANGED <<args, encoded, error, heap, n, results, sigma_select, sigma_replace,
                 draws, ang, closest>>

\* _is_clifford_angle(ang).
IsCliffordCall ==
  /\ pc = "oracle"
  /\ \E pick \in 1..2 : verdict' = IsCliffordAngle(ang, pick)
  /\ pc' = "oracle_classified"
  /\ UNCHANGED <<args, encoded, error, heap, n, results, sigma_select, sigma_replace,
                 draws, ang, closest>>

Next ==
  \/ Encode
  \/ MapRaisesOptions
  \/ MapRaisesSelect
  \/ MapRaisesEmpty
  \/ MapRaisesReplace
  \/ MapReturns
  \/ Return
  \/ ClosestCliffordCall
  \/ IsCliffordOfClosest
  \/ IsCliffordCall

Spec == Init /\ [][Next]_vars

\* ------------------------------------------------------------ count_non_cliffords
\* count_non_cliffords(circuit) for a circuit with a rotation: the width of
\* the non-Clifford part of its table.  The tie outcome inside
\* _is_clifford_angle is `pick` for every angle.
CountNonCliffords(circ, pick) ==
  LET lists == CircuitToArray(circ)
      rz == Masked(lists, [k \in 1..Len(lists.name) |-> lists.name[k] = "rz"])
  IN  Width(Masked(rz, [k \in 1..Width(rz) |-> ~IsCliffordAngle(rz.param[k], pick)]))

\* ------------------------------------------------------------ properties
CliffordAngleSet == {CLIFFORD_ANGLES[i] : i \in 1..4}
Finished == pc \in {"returned", "raised"}
\* The position in the input circuit of column c of rz_non_cliff.
PositionOf(c) == rz_non_cliff.order[c] + 1
\* The positions of the input whose gates iteration i selected.
SelectedPositions(i) == {PositionOf(columns_log[i][k]) : k \in 1..Len(columns_log[i])}

\* C1: every circuit built has the input's operations position by position,
\* same gate kind and same qubits in the same control/target order, and an
\* exponent differs from the input's only at a rotation selected for
\* replacement in that iteration.
C1_OrderAndWiringPreserved ==
  \A i \in 1..Len(circuits_list) :
    LET out == heap[circuits_list[i]]
    IN  /\ Len(out) = Len(circuit)
        /\ \A k \in 1..Len(out) :
             /\ out[k].gate = circuit[k].gate
             /\ out[k].qubits = circuit[k].qubits
             /\ out[k].exponent # circuit[k].exponent =>
                  circuit[k].gate = "ZPowGate" /\ k \in SelectedPositions(i)

\* A returned circuit whose replaced rotation comes after a CNOT of the input.
C1_Witness ==
  /\ pc = "returned"
  /\ circuit = <<Rz(1, AngleBelowTie), CNOT(0, 1)>>
  /\ Len(circuits_list) = 1
  /\ heap[circuits_list[1]][1].exponent # AngleBelowTie

\* C2 as stated: for every fraction in [0,1] and both selection methods, a
\* call on a circuit with non-Clifford rotations gives circuits, each with
\* exactly N non-Clifford rotations and total_non_cliff - N selected ones;
\* for fraction 1.0 the count is the input's.
C2_CountEqualsRetained ==
  (/\ Finished
   /\ total_non_cliff >= 1
   /\ method_select \in SelectMethods
   /\ method_replace \in ReplaceMethods
   /\ ~Sigmas.raised)
  => /\ pc = "returned"
     /\ Len(circuits_list) = num_training_circuits
     /\ \A i \in 1..Len(circuits_list) : \A pick \in 1..2 :
          /\ Len(columns_log[i]) = total_non_cliff - N
          /\ CountNonCliffords(heap[circuits_list[i]], pick) = N

\* What does hold of C2: every circuit that is built has exactly N
\* non-Clifford rotations, from total_non_cliff - N distinct selected columns.
ReturnedCountEqualsRetained ==
  \A i \in 1..Len(circuits_list) : \A pick \in 1..2 :
    /\ Len(columns_log[i]) = total_non_cliff - N
    /\ \A j, k \in 1..Len(columns_log[i]) :
         j # k => columns_log[i][j] # columns_log[i][k]
    /\ CountNonCliffords(heap[circuits_list[i]], pick) = N

\* C3: the angle lists of every iteration have total_non_cliff - N entries,
\* entry k of the originals is the input angle of the k-th selected gate,
\* entry k of the replacements is a Clifford angle and is the angle that gate
\* has in the circuit built; a return gives num_training_circuits of each.
C3_AngleListsParallel ==
  /\ Len(angles_original_list) = Len(circuits_list)
  /\ Len(angles_replaced_list) = Len(circuits_list)
  /\ pc = "returned" => Len(circuits_list) = num_training_circuits
  /\ \A i \in 1..Len(circuits_list) :
       /\ Len(columns_log[i]) = total_non_cliff - N
       /\ Len(angles_original_list[i]) = total_non_cliff - N
       /\ Len(angles_replaced_list[i]) = total_non_cliff - N
       /\ \A k \in 1..Len(columns_log[i]) :
            LET pos == PositionOf(columns_log[i][k])
            IN  /\ angles_original_list[i][k] = circuit[pos].exponent
                /\ angles_replaced_list[i][k] = heap[circuits_list[i]][pos].exponent
                /\ angles_replaced_list[i][k] \in CliffordAngleSet

\* Two different rotations selected in descending order, both replaced.
C3_Witness ==
  /\ pc = "returned"
  /\ circuit = <<Rz(0, AngleTie), Rz(1, AngleBelowTie)>>
  /\ columns_log = <<(<<2, 1>>)>>
  /\ angles_original_list = <<(<<AngleBelowTie, AngleTie>>)>>

\* C4 as stated: when the invalid-method error is raised, no selection
\* sample and no replacement draw has been made and no circuit was built.
C4_InvalidMethodBeforeAnyDraw ==
  error \in {"InvalidMethodSelect", "InvalidMethodReplace"} =>
    /\ draws.select = 0
    /\ draws.replace = 0
    /\ circuits_list = <<>>

\* The option keys the caller supplied, directly or in the mapping.
SuppliedKeys ==
  DOMAIN additional_options.direct
    \cup (IF additional_options.has_ao THEN DOMAIN additional_options.ao ELSE {})
SuppliedValue(key) ==
  IF key \in DOMAIN additional_options.direct THEN additional_options.direct[key]
  ELSE additional_options.ao[key]

\* C5 as stated: a supplied key other than sigma_select and sigma_replace
\* makes the call fail with the options error, however it was passed; a
\* supplied sigma is the one bound, and the default only when it is absent.
C5_OptionsValidatedAndUsed ==
  Finished =>
    /\ SuppliedKeys \ {"sigma_select", "sigma_replace"} # {} => error = "InvalidOptions"
    /\ error # "InvalidOptions" /\ sigma_select # None =>
         /\ sigma_select = IF "sigma_select" \in SuppliedKeys
                           THEN SuppliedValue("sigma_select") ELSE DefaultSigma
         /\ sigma_replace = IF "sigma_replace" \in SuppliedKeys
                            THEN SuppliedValue("sigma_replace") ELSE DefaultSigma

\* C6 as stated: for a circuit with operations outside the basis the Encoder
\* gives one record per recognized operation, the five columns have one
\* length, and each record's order and native operation are those of the
\* operation it was built from.
C6_UnrecognizedDropped ==
  (pc # "called" /\ pc \notin {"oracle", "oracle_closest", "oracle_checked",
                                "oracle_classified"}
   /\ \E k \in 1..Len(circuit) : ~Recognized(circuit[k]))
  => /\ Rectangular(data)
     /\ Len(data.name) = Len(SelectSeq(circuit, Recognized))
     /\ \A k \in 1..Len(data.name) :
          /\ GateName(data.operation[k]) = data.name[k]
          /\ circuit[data.order[k] + 1] = data.operation[k]

\* C7: _closest_clifford returns a member of the four Clifford angles for
\* every angle and tie outcome, returns c for a Clifford angle c,
\* _is_clifford_angle of its result is true, and _is_clifford_angle(c) is true.
C7_ClosestIsClifford ==
  /\ pc \in {"oracle_closest", "oracle_checked"} =>
       /\ closest \in CliffordAngleSet
       /\ ang \in CliffordAngleSet => closest = ang
  /\ pc = "oracle_checked" => verdict
  /\ pc = "oracle_classified" /\ ang \in CliffordAngleSet => verdict

\* A negative angle in the tie window, its result classified.
C7_Witness ==
  /\ pc = "oracle_checked"
  /\ ang < 0
  /\ ~NotAtMidpoint(PyMod(ang, TwoPi))
  /\ verdict

\* C8: after any number of iterations the encoded tables are those of the
\* input, the template has no instruction, every iteration selected among
\* all the non-Clifford gates, and the circuits built are distinct objects,
\* none the template, each holding only its own instructions.
C8_EncodedStateUntouched ==
  pc \in {"loop", "returned"} \/ (pc = "raised" /\ Len(heap) >= 2) =>
    /\ heap[empty_circuit] = <<>>
    /\ \A c \in 1..Width(rz_non_cliff) :
         /\ rz_non_cliff.name[c] = "rz"
         /\ rz_non_cliff.param[c] = circuit[PositionOf(c)].exponent
    /\ \A c \in 1..Width(all_cliff) :
         all_cliff.operation[c] = circuit[all_cliff.order[c] + 1]
    /\ Width(rz_non_cliff) = total_non_cliff
    /\ Width(rz_non_cliff) + Width(all_cliff) = Len(circuit)
    /\ \A i \in 1..Len(circuits_list) :
         /\ circuits_list[i] # empty_circuit
         /\ Len(heap[circuits_list[i]]) = Len(circuit)
         /\ \A k \in 1..Len(columns_log[i]) : columns_log[i][k] \in 1..total_non_cliff
         /\ \A j \in 1..Len(circuits_list) : i # j => circuits_list[i] # circuits_list[j]

\* Two training circuits built from the same tables.
C8_Witness ==
  /\ pc = "returned"
  /\ Len(circuits_list) = 2
  /\ total_non_cliff = 2
  /\ heap[circuits_list[1]] # heap[circuits_list[2]]

\* The circular distance between two reduced angles.
CircularDistance(a, b) ==
  IF Abs(a - b) <= TwoPi - Abs(a - b) THEN Abs(a - b) ELSE TwoPi - Abs(a - b)

\* C9 as stated: in the tie branch at midpoint m the result is one of the
\* two Clifford angles around m; otherwise it is a Clifford angle at minimal
\* circular distance.
C9_TieReturnsAdjacent ==
  pc = "oracle_closest" =>
    LET a == PyMod(ang, TwoPi)
    IN  IF NotAtMidpoint(a) THEN
          \A c \in CliffordAngleSet :
            CircularDistance(a, closest) <= CircularDistance(a, c)
        ELSE
          \E m \in {1, 3, 5} :
            /\ Abs(2 * a - m * Quarter) <= Quarter \div TieTolInv
            /\ closest \in {((m - 1) \div 2) * Quarter, ((m + 1) \div 2) * Quarter}

\* C10 as stated: a call that leaves both methods to their defaults does not
\* raise the invalid-method error.
C10_DefaultsAccepted ==
  passed = {} => error \notin {"InvalidMethodSelect", "InvalidMethodReplace"}

\* C11 as stated: _is_clifford_angle classifies by circular distance: every
\* angle whose distance modulo 2pi to some Clifford angle is below the
\* tolerance, also one whose reduction lies just below 2pi, is classified
\* Clifford, for either tie outcome.
C11_CliffordByCircularDistance ==
  pc = "oracle_classified" =>
    ((\E c \in CliffordAngleSet :
        CircularDistance(PyMod(ang, TwoPi), c) <= TolUnits) => verdict)

====
